---- MODULE Spec2Model ----
(***************************************************************************)
(* A model of pyuv's Timer handle (src/src/timer.c): the Python-level      *)
(* Timer object, the reference counts its code manipulates, and the native *)
(* uv_timer_t resources it hands to the libuv loop.                        *)
(*                                                                         *)
(* The loop is single threaded.  A step of the model is either one call of *)
(* a Timer method by user code (possibly made from inside the timer's own  *)
(* callback), or one dispatch by the loop: a timer firing entering         *)
(* on_timer_callback, the user callback returning, or a close completing   *)
(* in on_timer_close.  A call that converts an argument with user code     *)
(* (__float__) or drops the last reference of an object (its destructor)   *)
(* takes more than one step: it stays under way while that user code calls *)
(* the Timer or runs the loop, and then runs on from where it stood.  The  *)
(* user callback is such user code too.                                    *)
(***************************************************************************)
EXTENDS Integers, FiniteSets, Sequences, TLC

(* ---------------------------------------------------------------------- *)
(* Bounds                                                                 *)
(* ---------------------------------------------------------------------- *)

\* How many calls of start() pass PyCallable_Check in one run.  Each of
\* them may allocate a native resource and moves reference counts.
MaxStarts == 2

\* How many times uv_close may be requested for one native resource.
MaxCloses == 2

\* How deep calls may be nested: how many calls may be under way inside
\* the user code that another call runs.
MaxNesting == 1

(* ---------------------------------------------------------------------- *)
(* Values                                                                 *)
(* ---------------------------------------------------------------------- *)

\* The null pointer to a native resource.
NULL == 0

\* The null pointer to a Python object.
PyNULL == "NULL"

\* Native resources are numbered in allocation order.
Handles == 1 .. MaxStarts

\* Python objects passed as the callback argument: two callables, None and
\* an object that is not callable.
CallbackArgs == {"cb1", "cb2", "None", "obj"}

\* Python objects passed as the data argument (None is the default).
DataArgs == {"None", "d1"}

\* Objects whose reference count the Timer code touches.
Objs == {"cb1", "cb2", "None", "obj", "d1"}

\* timeout and repeat arguments, in units of half a millisecond
\* (-1 is -0.0005 s, 1 is 0.0005 s, 2 is 0.001 s).
TimeVals == {-1, 0, 1, 2}

\* (int64_t)(x * 1000): C conversion of seconds to whole milliseconds,
\* truncating toward zero.
ToMillis(x) == IF x >= 0 THEN x \div 2 ELSE -((-x) \div 2)

\* PyCallable_Check
PyCallable_Check(o) == o \in {"cb1", "cb2"}

\* Messages of the exceptions the methods raise.
OK == "OK"
ErrClosed == "TimerError: Timer is closed"
ErrActive == "TimerError: Timer is already active."
ErrNotActive == "TimerError: Timer is not active."
ErrNotCallable == "TypeError: a callable or None is required"
ErrNegative == "ValueError: a positive value or zero is required"
ErrNoMemory == "MemoryError"
ErrLoop == "TimerError: uv error"
ErrInitialized == "TimerError: Object already initialized"
ErrDelete == "TypeError: cannot delete attribute"
ErrNotFloat == "TypeError: a float is required"
ErrNegativeRepeat == "ValueError: a positive float or 0.0 is required"
ErrInitArg == "TypeError: __init__() argument 1 must be pyuv.Loop"
ErrParse == "TypeError: start() arguments"
ErrNoAttribute == "AttributeError: data"
Crash == "crash"

\* The outcome of a call that has not returned yet.
Running == "running"

VARIABLES
    initialized,  \* self->initialized
    active,       \* self->active
    closed,       \* self->closed
    uv_timer,     \* self->uv_timer: a handle number or NULL
    callback,     \* self->callback: an object or NULL
    data,         \* self->data: an object or NULL
    refcnt,       \* per object: Py_INCREFs minus Py_DECREFs done for the Timer's slots
    selfAcq,      \* Py_INCREF(self) done by start (keep-alive acquisitions)
    selfRel,      \* Py_DECREF(obj) done by on_timer_close (keep-alive releases)
    hold,         \* temporary references on self held by on_timer_callback
    heap,         \* per handle: its memory and the loop's view of it
    nStart,       \* calls of start() that passed PyCallable_Check
    inCb,         \* a call of the user callback is under way
    firing,       \* the handle whose firing the last step dispatched or returned from, or NULL
    op,           \* the last step taken
    err,          \* the outcome of the last step, if it was a method call (Running: not returned yet)
    loopCall,     \* the last call into the loop made by the last step
    unraisable,   \* PyErr_WriteUnraisable was called by the last step
    crashed,      \* the process died on undefined behaviour
    arg,          \* the callback argument, if the last step was a start() that read it
    retval,       \* the value returned, if the last step read the repeat property
    quiet,        \* the last successful start(), stop() or again() was a stop()
    gone,         \* Timer_tp_dealloc has freed the Timer
    freeing,      \* the Timer_tp_dealloc under way, suspended in a destructor it runs
    pending       \* the calls under way that run user code (argument conversions, destructors, the callback), innermost last

vars == <<initialized, active, closed, uv_timer, callback, data, refcnt,
          selfAcq, selfRel, hold, heap, nStart, inCb, firing, op, err,
          loopCall, unraisable, crashed, arg, retval, quiet, gone, freeing,
          pending>>

timerVars == <<initialized, active, closed, uv_timer, callback, data>>

\* No value was returned.
NoValue == -1

\* Whatever a block of memory holds after it was freed.
Indeterminate == -2

\* No Timer_tp_dealloc is under way.
NotFreeing == [at |-> "no", by |-> "no", h |-> NULL, depth |-> 0]

NoCall == [fn |-> "none", h |-> NULL, mem |-> "none"]

\* The memory state of the resource a pointer refers to.
MemOf(h) == IF h = NULL THEN "NULL" ELSE heap[h].mem

Call(fn, h) == [fn |-> fn, h |-> h, mem |-> MemOf(h)]

FreshHandle == [mem |-> "unalloc", init |-> FALSE, sched |-> FALSE,
                repeat |-> 0, data |-> "NULL", closing |-> FALSE,
                closeReq |-> 0, closeRan |-> 0]

\* Py_INCREF / Py_DECREF / Py_XDECREF on the counts in rc.
Py_INCREF(rc, o) == [rc EXCEPT ![o] = @ + 1]
Py_DECREF(rc, o) == [rc EXCEPT ![o] = @ - 1]
Py_XDECREF(rc, o) == IF o = PyNULL THEN rc ELSE Py_DECREF(rc, o)

(* ---------------------------------------------------------------------- *)
(* The loop's operations on a native timer                                *)
(* ---------------------------------------------------------------------- *)

\* PyMem_Malloc(sizeof(uv_timer_t))
PyMem_Malloc(hp, h) == [hp EXCEPT ![h].mem = "live"]

\* PyMem_Free(handle)
PyMem_Free(hp, h) == [hp EXCEPT ![h].mem = "freed"]

\* uv_timer_init: the loop now knows the handle.
uv_timer_init(hp, h) == [hp EXCEPT ![h].init = TRUE]

\* uv_timer_start: schedule with the given repeat interval (milliseconds).
uv_timer_start(hp, h, rep) == [hp EXCEPT ![h].sched = TRUE, ![h].repeat = rep]

\* uv_timer_stop: cancel the schedule.
uv_timer_stop(hp, h) == [hp EXCEPT ![h].sched = FALSE]

\* uv_timer_again: a repeating timer is stopped and restarted with the
\* repeat value as the timeout, whether it was scheduled or not; a timer
\* without repeat interval is left as it is, scheduled or not.
uv_timer_again(hp, h) ==
    [hp EXCEPT ![h].sched = IF hp[h].repeat > 0 THEN TRUE ELSE @]

\* uv_close: cancel the schedule and queue the close callback.
uv_close(hp, h) == [hp EXCEPT ![h].sched = FALSE, ![h].closing = TRUE,
                              ![h].closeReq = @ + 1]

(* ---------------------------------------------------------------------- *)
(* Initial state: Timer_tp_new has run, Timer_tp_init has not             *)
(* ---------------------------------------------------------------------- *)

Init ==
    /\ initialized = FALSE
    /\ active = FALSE
    /\ closed = FALSE
    /\ uv_timer = NULL
    /\ callback = PyNULL
    /\ data = PyNULL
    /\ refcnt = [o \in Objs |-> 0]
    /\ selfAcq = 0
    /\ selfRel = 0
    /\ hold = 0
    /\ heap = [h \in Handles |-> FreshHandle]
    /\ nStart = 0
    /\ inCb = FALSE
    /\ firing = NULL
    /\ op = "new"
    /\ err = OK
    /\ loopCall = NoCall
    /\ unraisable = FALSE
    /\ crashed = FALSE
    /\ arg = PyNULL
    /\ retval = NoValue
    /\ quiet = FALSE
    /\ gone = FALSE
    /\ freeing = NotFreeing
    /\ pending = <<>>

\* User code can call a method whenever it runs: before the loop runs,
\* between dispatches, inside the timer's callback, or inside the
\* conversion of an argument of a call that is under way.  No method looks
\* at self->initialized: a Timer made by Timer_tp_new alone takes the same
\* calls, and so does a Timer that is being deallocated, from the
\* destructors Timer_tp_clear runs.  Once the Timer is freed nothing refers
\* to it.
UserCanCall == ~crashed /\ ~gone

\* The loop dispatches whenever user code runs it: at top level, inside the
\* argument conversion or the destructor of a call under way, or inside a
\* callback.  Neither trampoline looks at the Timer before it acts.
LoopCanDispatch == ~crashed

\* A dispatch by the loop is no method call.
Dispatched ==
    /\ err' = OK
    /\ loopCall' = NoCall
    /\ arg' = PyNULL
    /\ retval' = NoValue
    /\ UNCHANGED quiet

\* What a method call leaves alone apart from the Timer's own fields.
LoopIdle ==
    /\ unraisable' = FALSE
    /\ retval' = NoValue
    /\ firing' = NULL
    /\ UNCHANGED <<inCb, hold, gone, freeing>>

\* A call that runs no user code leaves the calls under way alone.
NoUserCode == UNCHANGED pending

(* ---------------------------------------------------------------------- *)
(* Timer_tp_init                                                          *)
(* ---------------------------------------------------------------------- *)

\* Binds the loop and resets the flags; a second call is rejected, and so
\* is an argument list that is not exactly one Loop (isLoop = FALSE), which
\* leaves the Timer uninitialized.
Timer_tp_init ==
    /\ UserCanCall
    /\ IF initialized
       THEN /\ err' = ErrInitialized
            /\ UNCHANGED timerVars
       ELSE \E isLoop \in BOOLEAN :
              IF ~isLoop
              THEN /\ err' = ErrInitArg
                   /\ UNCHANGED timerVars
              ELSE /\ err' = OK
                   /\ initialized' = TRUE
                   /\ active' = FALSE
                   /\ closed' = FALSE
                   /\ uv_timer' = NULL
                   /\ UNCHANGED <<callback, data>>
    /\ op' = "init"
    /\ loopCall' = NoCall
    /\ arg' = PyNULL
    /\ UNCHANGED quiet
    /\ UNCHANGED <<refcnt, selfAcq, selfRel, heap, nStart, crashed>>
    /\ LoopIdle
    /\ NoUserCode

(* ---------------------------------------------------------------------- *)
(* Timer_func_start                                                       *)
(* ---------------------------------------------------------------------- *)

\* The first unallocated handle: what PyMem_Malloc returns next.
NextHandle == Cardinality({h \in Handles : heap[h].mem # "unalloc"}) + 1

\* The check "if (self->closed)" on entry to start.
StartSeesClosed == closed

\* A start() that never looks at self->active.
StartSeesActive_Skipped == FALSE

\* The check "if (self->active)" on entry to start.
StartSeesActive == active

\* The state of the Timer and of the native memory at some point in start().
StartState(cbk, dat, uvt, act, rc, hp, acq, e, lc) ==
    [callback |-> cbk, data |-> dat, uv_timer |-> uvt, active |-> act,
     refcnt |-> rc, heap |-> hp, selfAcq |-> acq, err |-> e, loopCall |-> lc]

\* The state start() finds when it runs on, after the argument parsing or
\* after a destructor.
StartNow ==
    StartState(callback, data, uv_timer, active, refcnt, heap, selfAcq, OK,
               NoCall)

\* The "error:" label of start() up to line 129: the local uv_timer is
\* freed if it was allocated.  s is the state on reaching the label with
\* the error e set, h the local uv_timer (NULL if not allocated yet).
StartError(s, h, e) ==
    [s EXCEPT !.heap = IF h # NULL
                       THEN PyMem_Free([s.heap EXCEPT ![h].data = "NULL"], h)
                       ELSE s.heap,
              !.err = e]

\* The errors with which start() reaches its "error:" label.
StartLabelErrors == {ErrNegative, ErrNoMemory, ErrLoop}

\* The rest of the label when no destructor runs: Py_DECREF(callback),
\* Py_DECREF(data), self->uv_timer = NULL.
StartErrorRest(s, cb, d) ==
    [s EXCEPT !.refcnt = Py_DECREF(Py_DECREF(s.refcnt, cb), d),
              !.uv_timer = NULL]

\* tmp = self->callback; Py_INCREF(callback); self->callback = callback;
\* Py_XDECREF(tmp)
StartStoreCallback(s, cb) ==
    [s EXCEPT !.refcnt = Py_XDECREF(Py_INCREF(s.refcnt, cb), s.callback),
              !.callback = cb]

\* tmp = self->data; Py_INCREF(data); self->data = data; Py_XDECREF(tmp)
StartStoreData(s, d) ==
    [s EXCEPT !.refcnt = Py_XDECREF(Py_INCREF(s.refcnt, d), s.data),
              !.data = d]

\* start() from line 98 once callback and data are stored, up to its return
\* or to line 129 of the "error:" label: PyMem_Malloc, uv_timer_init and
\* uv_timer_start, each of which may fail, with rep the repeat interval in
\* milliseconds.  On a Timer that was never initialized
\* self->loop is NULL and evaluating SELF_LOOP for uv_timer_init kills the
\* process.
StartArm(s, cb, d, rep, mallocOk, initOk, startOk) ==
    LET h == NextHandle
        s3 == [s EXCEPT !.heap = PyMem_Malloc(s.heap, h)]
        s4 == [s3 EXCEPT !.loopCall = [fn |-> "uv_timer_init", h |-> h, mem |-> "live"]]
        \* uv_timer->data = self; self->uv_timer = uv_timer
        s5 == [s4 EXCEPT !.heap = [uv_timer_init(s4.heap, h) EXCEPT ![h].data = "self"],
                         !.uv_timer = h]
        s6 == [s5 EXCEPT !.loopCall = [fn |-> "uv_timer_start", h |-> h, mem |-> "live"]]
        \* self->active = True; Py_INCREF(self)
        s7 == [s6 EXCEPT !.heap = uv_timer_start(s6.heap, h, rep),
                         !.active = TRUE,
                         !.selfAcq = @ + 1]
    IN  IF ~mallocOk THEN StartError(s, NULL, ErrNoMemory)
        ELSE IF ~initialized THEN [s3 EXCEPT !.err = Crash]
        ELSE IF ~initOk THEN StartError(s4, h, ErrLoop)
        ELSE IF ~startOk THEN StartError(s6, h, ErrLoop)
        ELSE s7

\* start() through its "error:" label when no destructor runs there.
StartThroughLabel(s, cb, d) ==
    IF s.err \in StartLabelErrors THEN StartErrorRest(s, cb, d) ELSE s

\* start(cb, t, r, d) once the callback passed PyCallable_Check, when no
\* destructor runs user code; mallocOk, initOk and startOk are the outcomes
\* of PyMem_Malloc, uv_timer_init and uv_timer_start.
StartBody(cb, t, r, d, mallocOk, initOk, startOk) ==
    IF t < 0 \/ r < 0
    THEN StartThroughLabel(StartError(StartStoreCallback(StartNow, cb), NULL,
                                      ErrNegative), cb, d)
    ELSE StartThroughLabel(
             StartArm(StartStoreData(StartStoreCallback(StartNow, cb), d), cb,
                      d, ToMillis(r), mallocOk, initOk, startOk), cb, d)

\* start() returning before it touches anything.
StartRejected(e) ==
    /\ err' = e
    /\ loopCall' = NoCall
    /\ UNCHANGED <<timerVars, refcnt, selfAcq, heap, nStart, quiet, crashed>>

\* The outcomes of the calls start() makes: all succeed, or PyMem_Malloc,
\* uv_timer_init or uv_timer_start fails.
StartFailures == {"none", "malloc", "init", "start"}

\* A call under way: the function, the call in which user code runs, and
\* the locals the function needs when it runs on (h: the handle that fired,
\* e: the error that is set).
Frame(fn, at, cb, d, rep) ==
    [fn |-> fn, at |-> at, cb |-> cb, d |-> d, rep |-> rep, h |-> NULL,
     e |-> OK]

\* start() suspended in PyArg_ParseTupleAndKeywords, which converts the
\* timeout and repeat arguments with their __float__.
StartInParse == Frame("start", "parse", PyNULL, PyNULL, 0)

\* Py_XDECREF(tmp) runs a destructor, and with it user code, only when it
\* drops the last reference: not on NULL, not on None, and not on the
\* object that was just stored again.
MayDestroy(old, new) == old \notin {PyNULL, "None", new}

\* on_timer_callback for handle h inside the call of the user callback cb
\* (self->callback as read at line 34).
InCallback(h, cb) ==
    [Frame("callback", "call", cb, PyNULL, 0) EXCEPT !.h = h]

\* start() suspended in Py_DECREF(callback) (at = "error_callback") or
\* Py_DECREF(data) (at = "error_data") of its "error:" label, with the
\* error e set.
StartInError(at, d, e) ==
    [Frame("start", at, PyNULL, d, 0) EXCEPT !.e = e]

\* The innermost call under way, and the calls around it.
Top == pending[Len(pending)]
Outer == SubSeq(pending, 1, Len(pending) - 1)

\* User code of the calls in stack may make a call that runs user code
\* again.  A Timer_tp_dealloc under way counts as one of the calls.
CanNest(stack) ==
    Len(stack) + (IF freeing.at = "no" THEN 0 ELSE 1) <= MaxNesting

\* Py_DECREF of an argument of start() at the "error:" label runs a
\* destructor only when it drops the last reference: the argument tuple
\* holds one, so the Timer's own count rc of it is not positive.  None is
\* never freed.
ArgMayDie(rc, o) == o # "None" /\ rc[o] <= 0

\* The slot points to an object the Timer holds no reference to: the
\* program may have freed it.  None is never freed.
Dangling(o) == o \notin {PyNULL, "None"} /\ refcnt[o] <= 0

\* start() leaving the step in state s with the calls under way in stack:
\* it has returned, or it is suspended with err = Running.  counted says
\* whether this step took the call past PyCallable_Check.
StartReturns(s, stack, counted) ==
    /\ callback' = s.callback
    /\ data' = s.data
    /\ uv_timer' = s.uv_timer
    /\ active' = s.active
    /\ refcnt' = s.refcnt
    /\ heap' = s.heap
    /\ selfAcq' = s.selfAcq
    /\ err' = s.err
    /\ loopCall' = s.loopCall
    /\ quiet' = IF s.err = OK THEN FALSE ELSE quiet
    /\ crashed' = (s.err = Crash)
    /\ nStart' = IF counted THEN nStart + 1 ELSE nStart
    /\ pending' = stack
    /\ UNCHANGED <<initialized, closed>>

\* start() from line 131 on, in state s with the error e set:
\* Py_DECREF(data) may run a destructor before self->uv_timer is cleared.
StartFromErrorData(s, stack, d, e, counted) ==
    \/ StartReturns([s EXCEPT !.refcnt = Py_DECREF(s.refcnt, d),
                              !.uv_timer = NULL,
                              !.err = e],
                    stack, counted)
    \/ /\ ArgMayDie(s.refcnt, d)
       /\ CanNest(stack)
       /\ StartReturns([s EXCEPT !.refcnt = Py_DECREF(s.refcnt, d),
                                 !.err = Running],
                       Append(stack, StartInError("error_data", d, e)),
                       counted)

\* start() from line 130 on, in state s with the error s.err set:
\* Py_DECREF(callback) may run a destructor before the label goes on.
StartFromErrorCallback(s, stack, cb, d, counted) ==
    \/ StartFromErrorData([s EXCEPT !.refcnt = Py_DECREF(s.refcnt, cb)],
                          stack, d, s.err, counted)
    \/ /\ ArgMayDie(s.refcnt, cb)
       /\ CanNest(stack)
       /\ StartReturns([s EXCEPT !.refcnt = Py_DECREF(s.refcnt, cb),
                                 !.err = Running],
                       Append(stack, StartInError("error_callback", d, s.err)),
                       counted)

\* start() leaving line 98 to 123 in state s: it returns, or it goes
\* through the rest of its "error:" label.
StartFromArm(s, stack, cb, d, counted) ==
    IF s.err \in StartLabelErrors
    THEN StartFromErrorCallback(s, stack, cb, d, counted)
    ELSE StartReturns(s, stack, counted)

\* start() from line 98 on, in state s.
StartFromMalloc(s, stack, cb, d, rep, counted) ==
    \E fail \in StartFailures :
        StartFromArm(StartArm(s, cb, d, rep, fail # "malloc", fail # "init",
                              fail # "start"),
                     stack, cb, d, counted)

\* start() returning from its "error:" label after one of its arguments
\* was freed there: the argument tuple still refers to the object, and
\* releasing the tuple is undefined: the process dies or the call returns
\* its error.
StartFromErrorFreed(s, stack, e) ==
    \E dies \in BOOLEAN :
        StartReturns([s EXCEPT !.uv_timer = NULL,
                               !.err = IF dies THEN Crash ELSE e],
                     stack, FALSE)

\* start() from line 93 on, in state s: the data is stored, and dropping
\* the old data may run a destructor before the call goes on.  Dropping a
\* reference of an object that was freed is undefined: the process dies or
\* the call goes on.
StartFromData(s, old, stack, cb, d, rep, counted) ==
    \/ StartFromMalloc(s, stack, cb, d, rep, counted)
    \/ /\ Dangling(old)
       /\ old # d
       /\ StartReturns([s EXCEPT !.err = Crash], stack, counted)
    \/ /\ MayDestroy(old, d)
       /\ CanNest(stack)
       /\ StartReturns([s EXCEPT !.err = Running],
                       Append(stack, Frame("start", "decref_data", cb, d, rep)),
                       counted)

\* start() from line 83 on, in state s.  A negative timeout ends the call
\* before repeat is looked at, and a negative repeat before any call that
\* can fail is made.
StartFromTimeout(s, stack, cb, counted) ==
    \E t \in TimeVals, d \in DataArgs :
        IF t < 0
        THEN StartFromErrorCallback(StartError(s, NULL, ErrNegative), stack,
                                    cb, d, counted)
        ELSE \E r \in TimeVals :
               IF r < 0
               THEN StartFromErrorCallback(StartError(s, NULL, ErrNegative),
                                           stack, cb, d, counted)
               ELSE StartFromData(StartStoreData(s, d), s.data, stack, cb, d,
                                  ToMillis(r), counted)

\* start() from line 77 on, in state s: the callback is stored, and
\* dropping the old callback may run a destructor before the call goes on.
\* Dropping a reference of an object that was freed is undefined: the
\* process dies or the call goes on.
StartFromCallback(s, old, stack, cb) ==
    \/ StartFromTimeout(s, stack, cb, TRUE)
    \/ /\ Dangling(old)
       /\ old # cb
       /\ StartReturns([s EXCEPT !.err = Crash], stack, TRUE)
    \/ /\ MayDestroy(old, cb)
       /\ CanNest(stack)
       /\ StartReturns([s EXCEPT !.err = Running],
                       Append(stack, Frame("start", "decref_callback", cb, PyNULL, 0)),
                       TRUE)

\* start() from the return of PyArg_ParseTupleAndKeywords on: the parsing
\* fails on a wrong number or type of arguments, and a callback that is not
\* callable is rejected.
StartFromParse(stack) ==
    \E cb \in CallbackArgs \cup {PyNULL} :
       /\ arg' = cb
       /\ IF cb = PyNULL
          THEN StartRejected(ErrParse) /\ pending' = stack
          ELSE IF ~PyCallable_Check(cb)
          THEN StartRejected(ErrNotCallable) /\ pending' = stack
          ELSE /\ nStart < MaxStarts
               /\ StartFromCallback(StartStoreCallback(StartNow, cb), callback,
                                    stack, cb)

\* start(): the closed and active checks come before the arguments are
\* parsed.  The parsing converts timeout and repeat with their __float__,
\* which is user code: the call either runs on at once or stays under way
\* while that user code calls the Timer.
Timer_func_start ==
    /\ UserCanCall
    /\ IF StartSeesClosed
       THEN StartRejected(ErrClosed) /\ arg' = PyNULL /\ NoUserCode
       ELSE IF StartSeesActive
       THEN StartRejected(ErrActive) /\ arg' = PyNULL /\ NoUserCode
       ELSE \/ StartFromParse(pending)
            \/ /\ CanNest(pending)
               /\ arg' = PyNULL
               /\ StartReturns([StartNow EXCEPT !.err = Running],
                               Append(pending, StartInParse), FALSE)
    /\ op' = "start"
    /\ UNCHANGED selfRel
    /\ LoopIdle

\* A start() under way runs on when the user code it waited for returns:
\* from the parsing, from the destructor of the old callback or data, or
\* from a destructor run by its "error:" label.  Nothing is checked again.
Timer_func_start_resumes ==
    /\ ~crashed
    /\ pending # <<>>
    /\ Top.fn = "start"
    /\ IF Top.at = "parse"
       THEN StartFromParse(Outer)
       ELSE /\ arg' = PyNULL
            /\ IF Top.at = "decref_callback"
               THEN StartFromTimeout(StartNow, Outer, Top.cb, FALSE)
               ELSE IF Top.at = "decref_data"
               THEN StartFromMalloc(StartNow, Outer, Top.cb, Top.d, Top.rep,
                                    FALSE)
               ELSE IF Top.at = "error_callback"
               THEN \/ StartFromErrorData(StartNow, Outer, Top.d, Top.e, FALSE)
                    \/ StartFromErrorFreed(
                           [StartNow EXCEPT !.refcnt = Py_DECREF(@, Top.d)],
                           Outer, Top.e)
               ELSE StartFromErrorFreed(StartNow, Outer, Top.e)
    /\ op' = "start_resumed"
    /\ UNCHANGED selfRel
    /\ LoopIdle

(* ---------------------------------------------------------------------- *)
(* Timer_func_stop                                                        *)
(* ---------------------------------------------------------------------- *)

\* stop(): rejected unless self->active; otherwise uv_timer_stop on
\* self->uv_timer, which the loop may refuse (ok = FALSE).  A handle whose
\* memory was already freed is undefined behaviour: the process dies or the
\* call goes through on dead memory and reports success.
Timer_func_stop ==
    /\ UserCanCall
    /\ IF ~active
       THEN /\ err' = ErrNotActive
            /\ loopCall' = NoCall
            /\ UNCHANGED <<active, heap, crashed>>
       ELSE /\ loopCall' = Call("uv_timer_stop", uv_timer)
            /\ IF MemOf(uv_timer) = "live"
               THEN \E ok \in BOOLEAN :
                      IF ok
                      THEN /\ heap' = uv_timer_stop(heap, uv_timer)
                           /\ active' = FALSE
                           /\ err' = OK
                           /\ UNCHANGED crashed
                      ELSE /\ err' = ErrLoop
                           /\ UNCHANGED <<active, heap, crashed>>
               ELSE \E dies \in BOOLEAN :
                      /\ crashed' = dies
                      /\ err' = IF dies THEN Crash ELSE OK
                      /\ active' = IF dies THEN active ELSE FALSE
                      /\ UNCHANGED heap
    /\ op' = "stop"
    /\ arg' = PyNULL
    /\ quiet' = IF err' = OK THEN TRUE ELSE quiet
    /\ UNCHANGED <<initialized, closed, uv_timer, callback, data, refcnt,
                   selfAcq, selfRel, nStart>>
    /\ LoopIdle
    /\ NoUserCode

(* ---------------------------------------------------------------------- *)
(* Timer_func_again                                                       *)
(* ---------------------------------------------------------------------- *)

\* again(): rejected if self->closed; otherwise uv_timer_again on
\* self->uv_timer, whatever it is.  With self->uv_timer NULL the loop
\* dereferences a null pointer: the process dies, or the call returns with
\* either result.
Timer_func_again ==
    /\ UserCanCall
    /\ IF closed
       THEN /\ err' = ErrClosed
            /\ loopCall' = NoCall
            /\ UNCHANGED <<heap, crashed>>
       ELSE /\ loopCall' = Call("uv_timer_again", uv_timer)
            /\ IF MemOf(uv_timer) = "live"
               THEN \E ok \in BOOLEAN :
                      IF ok
                      THEN /\ heap' = uv_timer_again(heap, uv_timer)
                           /\ err' = OK
                           /\ UNCHANGED crashed
                      ELSE /\ err' = ErrLoop
                           /\ UNCHANGED <<heap, crashed>>
               ELSE \E outcome \in {Crash, ErrLoop, OK} :
                      /\ crashed' = (outcome = Crash)
                      /\ err' = outcome
                      /\ UNCHANGED heap
    /\ op' = "again"
    /\ arg' = PyNULL
    /\ quiet' = IF err' = OK THEN FALSE ELSE quiet
    /\ UNCHANGED <<timerVars, refcnt, selfAcq, selfRel, nStart>>
    /\ LoopIdle
    /\ NoUserCode

(* ---------------------------------------------------------------------- *)
(* Timer_func_close                                                       *)
(* ---------------------------------------------------------------------- *)

\* The test close() makes before it asks the loop to close the resource.
CloseAsksLoop == uv_timer # NULL

\* close(): sets self->closed and, if self->uv_timer is not NULL, calls
\* uv_close on it.  On a handle that is already closing, or whose memory was
\* freed, uv_close is undefined: the process dies (libuv asserts the handle
\* is not closing) or the request is recorded again without further effect.
Timer_func_close ==
    /\ UserCanCall
    /\ closed' = TRUE
    /\ IF CloseAsksLoop
       THEN /\ heap[uv_timer].closeReq < MaxCloses
            /\ loopCall' = Call("uv_close", uv_timer)
            /\ IF MemOf(uv_timer) = "live" /\ ~heap[uv_timer].closing
               THEN /\ heap' = uv_close(heap, uv_timer)
                    /\ err' = OK
                    /\ UNCHANGED crashed
               ELSE \E dies \in BOOLEAN :
                      /\ crashed' = dies
                      /\ err' = IF dies THEN Crash ELSE OK
                      /\ heap' = [heap EXCEPT ![uv_timer].closeReq = @ + 1]
       ELSE /\ loopCall' = NoCall
            /\ err' = OK
            /\ UNCHANGED <<heap, crashed>>
    /\ op' = "close"
    /\ arg' = PyNULL
    /\ UNCHANGED quiet
    /\ UNCHANGED <<initialized, active, uv_timer, callback, data, refcnt,
                   selfAcq, selfRel, nStart>>
    /\ LoopIdle
    /\ NoUserCode

(* ---------------------------------------------------------------------- *)
(* Timer_repeat_get, Timer_repeat_set                                     *)
(* ---------------------------------------------------------------------- *)

\* uv_timer_get_repeat: the repeat interval in milliseconds.
uv_timer_get_repeat(hp, h) == hp[h].repeat

\* uv_timer_set_repeat: store the repeat interval; the schedule is not
\* touched.
uv_timer_set_repeat(hp, h, rep) == [hp EXCEPT ![h].repeat = rep]

\* PyFloat_FromDouble(ms / 1000.0), in units of half a millisecond.
FromMillis(ms) == ms * 2

\* Reading the property: rejected if self->closed; otherwise
\* uv_timer_get_repeat on self->uv_timer, whatever it is.  With a null
\* pointer or one to a freed block the process dies or what the memory holds
\* is read: some value, or for a freed block the interval last stored.
Timer_repeat_get ==
    /\ UserCanCall
    /\ IF closed
       THEN /\ err' = ErrClosed
            /\ loopCall' = NoCall
            /\ retval' = NoValue
            /\ UNCHANGED crashed
       ELSE /\ loopCall' = Call("uv_timer_get_repeat", uv_timer)
            /\ IF MemOf(uv_timer) = "live"
               THEN /\ retval' = FromMillis(uv_timer_get_repeat(heap, uv_timer))
                    /\ err' = OK
                    /\ UNCHANGED crashed
               ELSE \E v \in {NoValue, Indeterminate}
                              \cup (IF MemOf(uv_timer) = "freed"
                                    THEN {FromMillis(uv_timer_get_repeat(
                                                         heap, uv_timer))}
                                    ELSE {}) :
                      /\ crashed' = (v = NoValue)
                      /\ err' = IF v = NoValue THEN Crash ELSE OK
                      /\ retval' = v
    /\ op' = "repeat_get"
    /\ arg' = PyNULL
    /\ unraisable' = FALSE
    /\ firing' = NULL
    /\ UNCHANGED <<timerVars, refcnt, selfAcq, selfRel, heap, nStart, inCb,
                   hold, quiet, gone, freeing, pending>>

\* What is assigned to the property: nothing (del), an object that is no
\* number, a float, or an object whose __float__ is user code that calls the
\* Timer.
RepeatKinds == {"delete", "notfloat", "float", "__float__"}

\* The property setter suspended in PyFloat_AsDouble.
RepeatInFloat == Frame("repeat_set", "float", PyNULL, PyNULL, 0)

\* The setter returning before it calls the loop.
RepeatRejected(e) ==
    /\ err' = e
    /\ loopCall' = NoCall
    /\ UNCHANGED <<heap, crashed>>

\* The setter from the return of PyFloat_AsDouble on: the conversion fails
\* (converted = FALSE), the value is negative, or uv_timer_set_repeat is
\* called on self->uv_timer, whatever it is.  With a null pointer the
\* process dies or the write is lost; with a pointer to a freed block the
\* write may also land in the block.
RepeatFromFloat(converted) ==
    IF ~converted
    THEN RepeatRejected(ErrNotFloat)
    ELSE \E v \in TimeVals :
           IF v < 0
           THEN RepeatRejected(ErrNegativeRepeat)
           ELSE /\ loopCall' = Call("uv_timer_set_repeat", uv_timer)
                /\ IF MemOf(uv_timer) = "live"
                   THEN /\ heap' = uv_timer_set_repeat(heap, uv_timer,
                                                       ToMillis(v))
                        /\ err' = OK
                        /\ UNCHANGED crashed
                   ELSE \E outcome \in {"dies", "lost"}
                                        \cup (IF MemOf(uv_timer) = "freed"
                                              THEN {"stored"} ELSE {}) :
                          /\ crashed' = (outcome = "dies")
                          /\ err' = IF outcome = "dies" THEN Crash ELSE OK
                          /\ heap' = IF outcome = "stored"
                                     THEN uv_timer_set_repeat(heap, uv_timer,
                                                              ToMillis(v))
                                     ELSE heap

\* Writing the property: rejected if self->closed and on deletion; then
\* the value is converted with PyFloat_AsDouble, which for an object with
\* __float__ runs user code: the call either runs on at once or stays
\* under way while that user code calls the Timer.
Timer_repeat_set ==
    /\ UserCanCall
    /\ IF closed
       THEN RepeatRejected(ErrClosed) /\ NoUserCode
       ELSE \E kind \in RepeatKinds :
              IF kind = "delete"
              THEN RepeatRejected(ErrDelete) /\ NoUserCode
              ELSE IF kind = "__float__"
              THEN /\ CanNest(pending)
                   /\ pending' = Append(pending, RepeatInFloat)
                   /\ RepeatRejected(Running)
              ELSE RepeatFromFloat(kind = "float") /\ NoUserCode
    /\ op' = "repeat_set"
    /\ arg' = PyNULL
    /\ UNCHANGED <<timerVars, refcnt, selfAcq, selfRel, nStart, quiet>>
    /\ LoopIdle

\* A setter under way runs on when __float__ returns, with a number or
\* with an exception.  self->closed is not checked again.
Timer_repeat_set_resumes ==
    /\ ~crashed
    /\ pending # <<>>
    /\ Top.fn = "repeat_set"
    /\ pending' = Outer
    /\ \E converted \in BOOLEAN : RepeatFromFloat(converted)
    /\ op' = "repeat_set_resumed"
    /\ arg' = PyNULL
    /\ UNCHANGED <<timerVars, refcnt, selfAcq, selfRel, nStart, quiet>>
    /\ LoopIdle

(* ---------------------------------------------------------------------- *)
(* Timer_tp_members: the writable member "data"                           *)
(* ---------------------------------------------------------------------- *)

\* Py_XINCREF on the counts in rc.
Py_XINCREF(rc, o) == IF o = PyNULL THEN rc ELSE Py_INCREF(rc, o)

\* Assigning to Timer.data, or deleting it (v = PyNULL): the member is
\* written whatever the Timer's flags are; the new object gains a
\* reference and the old one loses one.  Deleting an unset member fails.
\* Dropping a reference of an old object that was freed is undefined: the
\* process dies or the write completes.
Timer_tp_members_data ==
    /\ UserCanCall
    /\ \E v \in DataArgs \cup {PyNULL} :
         IF v = PyNULL /\ data = PyNULL
         THEN /\ err' = ErrNoAttribute
              /\ UNCHANGED <<data, refcnt, crashed>>
         ELSE \E dies \in {FALSE, Dangling(data) /\ data # v} :
                /\ err' = IF dies THEN Crash ELSE OK
                /\ crashed' = dies
                /\ data' = v
                /\ refcnt' = Py_XDECREF(Py_XINCREF(refcnt, v), data)
    /\ op' = "data_set"
    /\ loopCall' = NoCall
    /\ arg' = PyNULL
    /\ UNCHANGED <<initialized, active, closed, uv_timer, callback, selfAcq,
                   selfRel, heap, nStart, quiet>>
    /\ LoopIdle
    /\ NoUserCode

(* ---------------------------------------------------------------------- *)
(* Timer_tp_clear, Timer_tp_dealloc                                       *)
(* ---------------------------------------------------------------------- *)

\* Timer_tp_dealloc suspended in the destructor run by Py_CLEAR(self->data)
\* (at = "clear_data") or by Py_CLEAR(self->callback) (at =
\* "clear_callback"); by is what dropped the last reference, h the handle
\* on_timer_close was called with, depth the calls under way then.
Freeing(at, by, h) == [at |-> at, by |-> by, h |-> h, depth |-> Len(pending)]

\* Py_CLEAR of a slot runs a destructor only when it drops the last
\* reference: the Timer's own is the only one left.
ClearMayDestroy(rc, o) == o \notin {PyNULL, "None"} /\ rc[o] <= 1

\* Py_CLEAR of a slot that points to a freed object is undefined.
ClearMayCrash(rc, o) == o \notin {PyNULL, "None"} /\ rc[o] <= 0

\* Timer_tp_clear from line 285 on, with dat in self->data: the outcomes of
\* Py_CLEAR(self->callback).  It completes (at = "done"), stays in the
\* destructor of the callback, or the process dies.
Timer_tp_clear_callback(rc, dat, cbk) ==
    LET done == [data |-> dat, callback |-> PyNULL,
                 refcnt |-> Py_XDECREF(rc, cbk), at |-> "done",
                 crashed |-> FALSE]
    IN  {done}
        \cup (IF ClearMayDestroy(rc, cbk)
              THEN {[done EXCEPT !.at = "clear_callback"]} ELSE {})
        \cup (IF ClearMayCrash(rc, cbk)
              THEN {[done EXCEPT !.crashed = TRUE]} ELSE {})

\* Timer_tp_clear: the outcomes of Py_CLEAR(self->data) followed by
\* Py_CLEAR(self->callback).
Timer_tp_clear(rc, dat, cbk) ==
    LET here == [data |-> PyNULL, callback |-> cbk,
                 refcnt |-> Py_XDECREF(rc, dat), at |-> "clear_data",
                 crashed |-> FALSE]
    IN  Timer_tp_clear_callback(here.refcnt, PyNULL, cbk)
        \cup (IF ClearMayDestroy(rc, dat) THEN {here} ELSE {})
        \cup (IF ClearMayCrash(rc, dat)
              THEN {[here EXCEPT !.crashed = TRUE]} ELSE {})

\* Timer_tp_dealloc ran to the end: tp_free was called.
Freed(o) == o.at = "done" /\ ~o.crashed

\* The Timer after Timer_tp_dealloc reached outcome o.
Deallocates(o, by, h) ==
    /\ data' = o.data
    /\ callback' = o.callback
    /\ refcnt' = o.refcnt
    /\ crashed' = o.crashed
    /\ gone' = (o.at = "done")
    /\ freeing' = IF o.at = "done" \/ o.crashed THEN NotFreeing
                                                ELSE Freeing(o.at, by, h)

\* Nothing else refers to the Timer: no call on it is under way (stack),
\* and the keep-alive references acquired are released (rel) or about to
\* be.
LastReference(stack, rel) ==
    /\ ~gone
    /\ freeing = NotFreeing
    /\ stack = <<>>
    /\ selfAcq = rel

\* on_timer_close from line 13 on: handle->data = NULL; PyMem_Free(handle).
CloseFrees(hp, h) ==
    PyMem_Free([hp EXCEPT ![h].data = "NULL", ![h].closing = FALSE], h)

\* The program drops its last reference to the Timer, or the collector
\* takes it: Timer_tp_dealloc clears the slots, which may run the
\* destructors of data and callback, and frees the object.
Timer_tp_dealloc ==
    /\ UserCanCall
    /\ hold = 0
    /\ LastReference(pending, selfRel)
    /\ \E o \in Timer_tp_clear(refcnt, data, callback) :
         /\ Deallocates(o, "del", NULL)
         /\ err' = IF o.crashed THEN Crash ELSE OK
    /\ op' = "del"
    /\ loopCall' = NoCall
    /\ arg' = PyNULL
    /\ retval' = NoValue
    /\ unraisable' = FALSE
    /\ firing' = NULL
    /\ UNCHANGED <<initialized, active, closed, uv_timer, selfAcq, selfRel,
                   heap, nStart, inCb, hold, quiet, pending>>

\* A Timer_tp_dealloc under way runs on when the destructor it waited for
\* returns, whatever that did to the Timer: Py_CLEAR(self->callback) if it
\* was the destructor of the data, then tp_free; then what ran it goes on
\* (on_timer_close clears and frees its handle, on_timer_callback
\* returns).  If the destructor took a reference on the dying Timer,
\* dropping it deallocates the Timer a second time: the process dies.
Timer_tp_dealloc_resumes ==
    /\ ~crashed
    /\ freeing # NotFreeing
    /\ Len(pending) = freeing.depth
    /\ LET here == [data |-> data, callback |-> callback, refcnt |-> refcnt,
                    at |-> "done", crashed |-> FALSE]
       IN  \E o \in {[here EXCEPT !.at = freeing.at, !.crashed = TRUE]}
                     \cup (IF freeing.at = "clear_data"
                           THEN Timer_tp_clear_callback(refcnt, data, callback)
                           ELSE {here}) :
             /\ Deallocates(o, freeing.by, freeing.h)
             /\ heap' = IF Freed(o) /\ freeing.by = "on_timer_close"
                        THEN CloseFrees(heap, freeing.h) ELSE heap
             /\ pending' = IF Freed(o) /\ freeing.by = "on_timer_callback"
                           THEN Outer ELSE pending
    /\ op' = "dealloc_resumed"
    /\ Dispatched
    /\ unraisable' = FALSE
    /\ firing' = NULL
    /\ UNCHANGED <<initialized, active, closed, uv_timer, selfAcq, selfRel,
                   nStart, inCb, hold>>

(* ---------------------------------------------------------------------- *)
(* on_timer_callback                                                      *)
(* ---------------------------------------------------------------------- *)

\* The loop fires a scheduled handle h: a handle without repeat interval is
\* no longer scheduled afterwards.  on_timer_callback takes a reference on
\* self (timer->data) and, unless self->callback is None, calls it with
\* self->data.  Calling an object that was freed, or passing one, is
\* undefined: the process dies or the callback is entered.  A slot that
\* Timer_tp_clear has set to NULL is called as well: the process dies or
\* the call fails and the failure is written as unraisable.
on_timer_callback ==
    /\ LoopCanDispatch
    /\ CanNest(pending)
    /\ \E h \in Handles :
         /\ heap[h].sched
         /\ heap' = [heap EXCEPT ![h].sched = (heap[h].repeat > 0)]
         /\ firing' = h
         /\ IF callback = PyNULL
            THEN \E dies \in BOOLEAN :
                   /\ crashed' = dies
                   /\ unraisable' = ~dies
                   /\ UNCHANGED <<hold, inCb, pending>>
            ELSE IF callback # "None"
            THEN \E dies \in {FALSE, Dangling(callback) \/ Dangling(data)} :
                   /\ crashed' = dies
                   /\ hold' = hold + 1
                   /\ inCb' = (inCb \/ ~dies)
                   /\ pending' = IF dies THEN pending
                                         ELSE Append(pending,
                                                     InCallback(h, callback))
                   /\ unraisable' = FALSE
            ELSE /\ unraisable' = FALSE
                 /\ UNCHANGED <<hold, inCb, pending, crashed>>
    /\ op' = "fire"
    /\ Dispatched
    /\ UNCHANGED <<timerVars, refcnt, selfAcq, selfRel, nStart, gone,
                   freeing>>

\* The user callback returns, with a result or with an exception (raised),
\* once every call made inside it has returned.  The exception is written
\* as unraisable with self->callback, read again, as its context: if that
\* slot points to a freed object the process dies or the report is written.
\* Then the reference on self is dropped; if it was the last one,
\* Timer_tp_dealloc runs before control returns to the loop.
on_timer_callback_return ==
    /\ ~crashed
    /\ pending # <<>>
    /\ Top.fn = "callback"
    /\ freeing.by = "on_timer_callback" => Len(pending) > freeing.depth
    /\ firing' = Top.h
    /\ \E raised \in BOOLEAN :
         /\ unraisable' = raised
         /\ \E dies \in {FALSE, raised /\ Dangling(callback)} :
              IF dies
              THEN /\ crashed' = TRUE
                   /\ pending' = Outer
                   /\ UNCHANGED <<hold, inCb, data, callback, refcnt, gone,
                                  freeing>>
              ELSE /\ hold' = hold - 1
                   /\ inCb' = (hold > 1)
                   /\ \/ /\ pending' = Outer
                         /\ UNCHANGED <<data, callback, refcnt, gone, crashed,
                                        freeing>>
                      \/ /\ LastReference(Outer, selfRel)
                         /\ \E o \in Timer_tp_clear(refcnt, data, callback) :
                              /\ Deallocates(o, "on_timer_callback", NULL)
                              /\ pending' = IF Freed(o) THEN Outer
                                                        ELSE pending
    /\ op' = "return"
    /\ Dispatched
    /\ UNCHANGED <<initialized, active, closed, uv_timer, selfAcq, selfRel,
                   heap, nStart>>

(* ---------------------------------------------------------------------- *)
(* on_timer_close                                                         *)
(* ---------------------------------------------------------------------- *)

\* The loop completes the close of handle h, once: on_timer_close drops the
\* reference on the object in handle->data; if it was the last one (no call
\* on the Timer is under way and no other resource keeps it alive),
\* Timer_tp_dealloc runs.  Then handle->data is cleared and the handle
\* freed.  self->uv_timer is not touched.  Dropping a reference on a Timer
\* that was freed is undefined: the process dies or the trampoline goes on.
on_timer_close ==
    /\ LoopCanDispatch
    /\ \E h \in Handles :
         /\ heap[h].closing
         /\ heap[h].mem = "live"
         /\ heap[h].closeRan = 0
         /\ selfRel' = selfRel + 1
         /\ LET ran == [heap EXCEPT ![h].closeRan = @ + 1]
            IN  \/ /\ heap' = CloseFrees(ran, h)
                   /\ UNCHANGED <<data, callback, refcnt, gone, crashed,
                                  freeing>>
                \/ /\ gone
                   /\ crashed' = TRUE
                   /\ heap' = ran
                   /\ UNCHANGED <<data, callback, refcnt, gone, freeing>>
                \/ /\ hold = 0
                   /\ LastReference(pending, selfRel + 1)
                   /\ \E o \in Timer_tp_clear(refcnt, data, callback) :
                        /\ Deallocates(o, "on_timer_close", h)
                        /\ heap' = IF Freed(o) THEN CloseFrees(ran, h) ELSE ran
    /\ op' = "closed"
    /\ Dispatched
    /\ unraisable' = FALSE
    /\ firing' = NULL
    /\ UNCHANGED <<initialized, active, closed, uv_timer, selfAcq, hold,
                   nStart, inCb, pending>>

Next ==
    \/ Timer_tp_init
    \/ Timer_func_start
    \/ Timer_func_start_resumes
    \/ Timer_func_stop
    \/ Timer_func_again
    \/ Timer_func_close
    \/ Timer_repeat_get
    \/ Timer_repeat_set
    \/ Timer_repeat_set_resumes
    \/ Timer_tp_members_data
    \/ Timer_tp_dealloc
    \/ Timer_tp_dealloc_resumes
    \/ on_timer_callback
    \/ on_timer_callback_return
    \/ on_timer_close

Spec == Init /\ [][Next]_vars

(* ---------------------------------------------------------------------- *)
(* Properties                                                             *)
(* ---------------------------------------------------------------------- *)

\* The close trampoline has run to its end for the resource the Timer
\* refers to.
CloseCompleted ==
    /\ closed
    /\ uv_timer # NULL
    /\ heap[uv_timer].closeRan > 0
    /\ heap[uv_timer].mem = "freed"

\* C1: close() is idempotent: every close() returns without error, the loop
\* is asked to close each native resource at most once, and on_timer_close
\* runs at most once per resource.
C1_CloseIdempotent ==
    /\ op = "close" => err = OK
    /\ \A h \in Handles : heap[h].closeReq <= 1 /\ heap[h].closeRan <= 1

\* C2: once the close trampoline has run for the Timer, its user callback is
\* not invoked again: no firing enters the callback after a close has
\* completed.
C2_NoCallbackAfterClose ==
    ~(op = "fire" /\ inCb /\ \E h \in Handles : heap[h].closeRan > 0)

\* C3: the keep-alive reference is balanced: never released more often than
\* acquired, and once close has completed the acquisitions equal the
\* releases.
C3_KeepAliveBalanced ==
    /\ selfRel <= selfAcq
    /\ CloseCompleted => selfAcq = selfRel

\* C4: at most one native resource of the Timer is allocated and unreleased
\* at any time, and after close completes none is.
C4_NoNativeLeak ==
    /\ Cardinality({h \in Handles : heap[h].mem = "live"}) <= 1
    /\ CloseCompleted => \A h \in Handles : heap[h].mem # "live"

\* C5: when the callback of a timer started without repeat interval has
\* returned, the Timer is idle again: nothing is scheduled and its active
\* flag is false, so that a new start() is accepted.
C5_OneShotReturnsToIdle ==
    (/\ op = "return"
     /\ ~closed
     /\ uv_timer = firing
     /\ heap[firing].repeat = 0)
    => (~heap[firing].sched /\ ~active)

\* C6: active implies that native_handle is not null and closed is false.
C6_ActiveImpliesOpenHandle ==
    active => (uv_timer # NULL /\ ~closed)

\* C7: closed is terminal: on a closed Timer every start(), stop() and
\* again() fails and makes no call into the loop.
C7_ClosedIsTerminal ==
    (closed /\ op \in {"start", "stop", "again"})
    => (err # OK /\ loopCall = NoCall)

\* The errors start() reports after its closed and active checks.
StartFailureErrors == {ErrNotCallable, ErrNegative, ErrNoMemory, ErrLoop}

\* C8: start() fails atomically: a start() that fails after its closed and
\* active checks leaves callback, data, native_handle, active and the
\* reference counts of the callback and data objects as they were.
C8_StartFailsAtomically ==
    [][(op' = "start" /\ err' \in StartFailureErrors)
       => UNCHANGED <<callback, data, uv_timer, active, refcnt>>]_vars

\* C9: start() on a Timer that is armed (active and not closed) fails with
\* the already-active error and changes nothing: the Timer stays armed with
\* the callback, data, native_handle, reference counts and native schedule
\* it had.
C9_StartOnArmedChangesNothing ==
    [][(op' = "start" /\ active /\ ~closed)
       => (/\ err' = ErrActive
           /\ loopCall' = NoCall
           /\ UNCHANGED <<timerVars, refcnt, selfAcq, heap>>)]_vars

\* C9 witness: a start() was rejected as already active on a Timer whose
\* native resource is scheduled.
C9_Witness ==
    /\ op = "start"
    /\ err = ErrActive
    /\ active /\ ~closed
    /\ uv_timer # NULL /\ heap[uv_timer].sched
    /\ callback # PyNULL

\* C10: again() on a non-closed Timer without native resource fails with an
\* error and does not call the loop's rearm operation with a null resource.
C10_AgainWithoutResourceFails ==
    (op = "again" /\ ~closed /\ uv_timer = NULL)
    => (err \notin {OK, Crash} /\ loopCall = NoCall)

\* C11: reading or writing repeat on a closed Timer fails with the closed
\* error, and on a Timer without native resource it fails with an error
\* and makes no call into the loop.
C11_RepeatNeedsResource ==
    (op \in {"repeat_get", "repeat_set"})
    => (/\ closed => (err = ErrClosed /\ loopCall = NoCall)
        /\ (~closed /\ uv_timer = NULL)
              => (err \notin {OK, Crash} /\ loopCall = NoCall))

\* C12: start() accepts a callable or None as callback: on an idle Timer
\* that is not closed, a start() passing a callable or None is not rejected
\* as "not callable"; only other values are.
C12_StartAcceptsNone ==
    [][(op' = "start" /\ ~closed /\ ~active /\ arg' \in {"cb1", "cb2", "None"})
       => err' # ErrNotCallable]_vars

\* C13: after a successful stop() the callback is not invoked until a
\* start() or again() succeeds: no firing enters the callback while the
\* last successful start(), stop() or again() was a stop().
C13_NoCallbackAfterStop ==
    (op = "fire" /\ inCb) => ~quiet

\* C14: stop() on an armed Timer (active, not closed) either fails in the
\* loop and changes nothing, or cancels the schedule and clears active
\* while native_handle, which refers to an allocated resource, the keep-alive
\* count, callback, data and closed stay as they were; stop() on a Timer
\* whose active flag is clear fails with the not-active error and changes
\* nothing.
C14_StopChangesOnlyActive ==
    [][(op' = "stop")
       => /\ (active /\ ~closed)
               => /\ err' \in {OK, ErrLoop}
                  /\ UNCHANGED <<initialized, closed, uv_timer, callback, data,
                                 refcnt, selfAcq, selfRel>>
                  /\ err' = OK
                       => /\ ~active'
                          /\ MemOf(uv_timer) = "live"
                          /\ heap' = [heap EXCEPT ![uv_timer].sched = FALSE]
                  /\ err' = ErrLoop => UNCHANGED <<active, heap>>
          /\ ~active
               => /\ err' = ErrNotActive
                  /\ loopCall' = NoCall
                  /\ UNCHANGED <<timerVars, heap, refcnt, selfAcq, selfRel>>]_vars

\* C15: stop(), start() and close() behave inside the callback as outside
\* it: their outcome depends on the Timer's flags alone and they decide
\* what is scheduled next; a start() that runs on inside the callback and
\* succeeds leaves the Timer active and scheduled; and whatever start()
\* did to the callback slot inside the callback, the trampoline returns to
\* the loop: the process lives, the hold is released, and no more
\* keep-alive references are released than were acquired.
C15_ReentrantCallsAreLegal ==
    [][/\ (op' = "stop")
            => /\ (err' = ErrNotActive) <=> ~active
               /\ (err' = OK /\ MemOf(uv_timer) = "live")
                     => ~heap'[uv_timer].sched
       /\ (op' = "start")
            => /\ (err' = ErrClosed) <=> closed
               /\ (err' = ErrActive) <=> (~closed /\ active)
               /\ err' = OK => (active' /\ heap'[uv_timer'].sched)
       /\ (op' = "start_resumed" /\ inCb /\ err' = OK)
            => (active' /\ uv_timer' # NULL /\ heap'[uv_timer'].sched)
       /\ (op' = "close")
            => /\ closed'
               /\ (MemOf(uv_timer) = "live" /\ ~heap[uv_timer].closing)
                     => /\ err' = OK
                        /\ heap'[uv_timer].closing
                        /\ ~heap'[uv_timer].sched
                        /\ heap'[uv_timer].mem = "live"
       /\ (op' = "return")
            => /\ selfRel' <= selfAcq'
               /\ (callback # Top.cb) => (~crashed' /\ hold' = hold - 1)]_vars

\* C16: when the callback fails, the failure is written as unraisable, the
\* trampoline drops its hold and returns to the loop, which keeps running;
\* the Timer, unless the trampoline's hold was its last reference, its
\* references and the native schedule are as the callback left them.
C16_CallbackFailureContained ==
    [][(op' = "return" /\ unraisable')
       => /\ hold' = hold - 1
          /\ ~crashed'
          /\ UNCHANGED <<initialized, active, closed, uv_timer, heap, selfAcq,
                         selfRel>>
          /\ (~gone' /\ freeing' = NotFreeing)
                => UNCHANGED <<callback, data, refcnt>>]_vars

\* C17: native_handle is non-null exactly when a start() has succeeded and
\* no close trampoline has run.
C17_HandleSlotTracksLifetime ==
    (uv_timer # NULL)
    <=> (selfAcq > 0 /\ \A h \in Handles : heap[h].closeRan = 0)

\* C18: no method passes the loop a native resource whose memory was freed.
C18_NoUseAfterFree ==
    loopCall.mem # "freed"

\* C19: a resource initialized with the loop is freed only by the close
\* trampoline.
C19_InitializedFreedOnlyByClose ==
    \A h \in Handles :
        (heap[h].init /\ heap[h].mem = "freed") => heap[h].closeRan > 0

\* C20: on a Timer that is not closed, active is true exactly when the
\* Timer's native resource is scheduled to fire.
C20_ActiveTracksSchedule ==
    ~closed => (active <=> (uv_timer # NULL /\ heap[uv_timer].sched))

====
